---- MODULE Spec2Model ----
(***************************************************************************)
(* A model of the grid layout engine of src/helpers/utils.js: collision    *)
(* test, vertical compaction, bounds correction, the cascading move        *)
(* resolver and the drag-drop placement resolver.                          *)
(*                                                                         *)
(* A layout is a sequence of items; the slot of an item in the sequence is *)
(* its slot in the JavaScript array.  An item is a record                  *)
(*     [i, x, y, w, h, static, moved]                                      *)
(* and object identity (===) is identity of the field i: ids are unique in *)
(* a layout, and the throw-away probe item of moveElementAwayFromCollision *)
(* has an id of its own.                                                   *)
(***************************************************************************)
EXTENDS Integers, Sequences, FiniteSets, TLC

\* Bounds of the model.
NItems == 3
MaxX == 1
MaxY == 2
MaxSize == 2
MaxCols == 2
MaxCalls == 12
MaxOps == 2

VARIABLES
    layout,    \* the layout array the caller holds
    prev,      \* the layout as it was before the last operation
    op         \* the last operation, its arguments and what it returned

vars == <<layout, prev, op>>

Slots == 1..NItems

Max(a, b) == IF a > b THEN a ELSE b

\* The record of an operation: its name, the slot k of the item passed, the
\* numbers x and y passed (cols is passed as x), the booleans passed
\* (verticalCompact or isUserAction as flag, preventCollision as flag2),
\* whether the operation before it was the same one with the same flag
\* (rep), whether the cascade overran MaxCalls, the placeholder returned or
\* passed (pos and the slot t of its dropItem), the number n of operations
\* applied so far and the slots of the collisions of moveElement in the
\* order its loop took them (order).
NoOp == [name |-> "none", k |-> 0, x |-> 0, y |-> 0, flag |-> FALSE,
         flag2 |-> FALSE, rep |-> FALSE, overrun |-> FALSE,
         pos |-> "none", t |-> 0, n |-> 0, order |-> <<>>]

(***************************************************************************)
(* Geometry primitives                                                     *)
(***************************************************************************)

\* collides with <= relaxed to <: items that touch along an edge collide.
CollidesTouching(l1, l2) ==
    IF l1.i = l2.i THEN FALSE
    ELSE IF l1.x + l1.w < l2.x THEN FALSE
    ELSE IF l1.x > l2.x + l2.w THEN FALSE
    ELSE IF l1.y + l1.h < l2.y THEN FALSE
    ELSE IF l1.y > l2.y + l2.h THEN FALSE
    ELSE TRUE

collides(l1, l2) ==
    IF l1.i = l2.i THEN FALSE                 \* same element
    ELSE IF l1.x + l1.w <= l2.x THEN FALSE    \* l1 is left of l2
    ELSE IF l1.x >= l2.x + l2.w THEN FALSE    \* l1 is right of l2
    ELSE IF l1.y + l1.h <= l2.y THEN FALSE    \* l1 is above l2
    ELSE IF l1.y >= l2.y + l2.h THEN FALSE    \* l1 is below l2
    ELSE TRUE                                 \* boxes overlap

\* The first element of the sequence of items cw that collides with item,
\* as an index into cw; 0 when there is none (undefined).
getFirstCollision(cw, item) ==
    LET hits == {j \in 1..Len(cw) : collides(cw[j], item)}
    IN  IF hits = {} THEN 0 ELSE CHOOSE j \in hits : \A m \in hits : j <= m

\* The slots of the static items, in array order.
getStatics(L) == SelectSeq([j \in 1..Len(L) |-> j], LAMBDA j : L[j].static)

\* The items of the slots in refs, as they are now in L.
Deref(L, refs) == [j \in 1..Len(refs) |-> L[refs[j]]]

(***************************************************************************)
(* sortLayoutItemsByRowCol.  The comparator answers -1 for two items with  *)
(* the same (y, x) whichever way it is asked, so the order of such items   *)
(* is left to the engine's sort: an engine that inserts from the left      *)
(* keeps their array order ("stable"), one that inserts by binary search   *)
(* reverses it ("reversed").  The result is a sequence of slots.           *)
(***************************************************************************)
TieOrders == {"stable", "reversed"}

RowColBefore(L, a, b, tie) ==
    \/ L[a].y < L[b].y
    \/ L[a].y = L[b].y /\ L[a].x < L[b].x
    \/ /\ L[a].y = L[b].y
       /\ L[a].x = L[b].x
       /\ IF tie = "stable" THEN a < b ELSE a > b

\* The sort with the comparator's sign flipped: bottom row first.
SortRowColDescending(L, tie) ==
    LET rank(a) == 1 + Cardinality({b \in 1..Len(L) : RowColBefore(L, a, b, tie)})
    IN  [r \in 1..Len(L) |-> CHOOSE a \in 1..Len(L) : rank(a) = r]

sortLayoutItemsByRowCol(L, tie) ==
    LET rank(a) == 1 + Cardinality({b \in 1..Len(L) : RowColBefore(L, b, a, tie)})
    IN  [r \in 1..Len(L) |-> CHOOSE a \in 1..Len(L) : rank(a) = r]

(***************************************************************************)
(* Compaction                                                              *)
(***************************************************************************)

\* while (l.y > 0 && !getFirstCollision(compareWith, l)) l.y--
RECURSIVE PullUp(_, _)
PullUp(cw, l) ==
    IF l.y > 0 /\ getFirstCollision(cw, l) = 0
    THEN PullUp(cw, [l EXCEPT !.y = IF l.y < 1 THEN 0 ELSE l.y - 1])
    ELSE l

\* while ((collides = getFirstCollision(compareWith, l))) l.y = collides.y + collides.h
RECURSIVE PushDown(_, _)
PushDown(cw, l) ==
    LET c == getFirstCollision(cw, l)
    IN  IF c = 0 THEN l
        ELSE PushDown(cw, [l EXCEPT !.y = cw[c].y + cw[c].h])

\* compactItem that only pulls up and never pushes down out of a collision.
CompactItemNoPush(cw, l, verticalCompact) ==
    IF verticalCompact THEN PullUp(cw, l) ELSE l

compactItem(cw, l, verticalCompact) ==
    PushDown(cw, IF verticalCompact THEN PullUp(cw, l) ELSE l)

\* The loop of compact over the sorted slots, from position n on: cw is
\* compareWith, out the output array (slot for slot the input array).
RECURSIVE CompactLoop(_, _, _, _, _)
CompactLoop(out, sorted, n, cw, verticalCompact) ==
    IF n > Len(sorted) THEN out
    ELSE LET s == sorted[n]
             l == IF out[s].static THEN out[s]
                  ELSE compactItem(cw, out[s], verticalCompact)
             cw2 == IF out[s].static THEN cw ELSE Append(cw, l)
         IN  CompactLoop([out EXCEPT ![s] = [l EXCEPT !.moved = FALSE]],
                         sorted, n + 1, cw2, verticalCompact)

compact(L, verticalCompact, tie) ==
    CompactLoop(L, sortLayoutItemsByRowCol(L, tie), 1,
                Deref(L, getStatics(L)), verticalCompact)

(***************************************************************************)
(* Bounds correction                                                       *)
(***************************************************************************)

\* while (getFirstCollision(collidesWith, l)) l.y++ ; collidesWith holds
\* references, so the static item itself and the statics after it are in it.
RECURSIVE NudgeDown(_, _, _)
NudgeDown(L, refs, s) ==
    IF getFirstCollision(Deref(L, refs), L[s]) = 0 THEN L
    ELSE NudgeDown([L EXCEPT ![s].y = @ + 1], refs, s)

\* The clamp without the test for an item left of the grid.
ClampNoLeft(l, cols) ==
    IF l.x + l.w > cols THEN [l EXCEPT !.x = cols - l.w] ELSE l

\* The clamp that takes an item at x = 0 to be left of the grid.
ClampLeftInclusive(l, cols) ==
    LET a == IF l.x + l.w > cols THEN [l EXCEPT !.x = cols - l.w] ELSE l
    IN  IF a.x <= 0 THEN [a EXCEPT !.x = 0, !.w = cols] ELSE a

\* The two clamps of correctBounds on one item: overflows right, overflows left.

Clamp(l, cols) ==
    LET a == IF l.x + l.w > cols THEN [l EXCEPT !.x = cols - l.w] ELSE l
    IN  IF a.x < 0 THEN [a EXCEPT !.x = 0, !.w = cols] ELSE a

RECURSIVE BoundsLoop(_, _, _, _)
BoundsLoop(L, n, refs, cols) ==
    IF n > Len(L) THEN L
    ELSE LET L1 == [L EXCEPT ![n] = Clamp(L[n], cols)]
         IN  IF ~L1[n].static
             THEN BoundsLoop(L1, n + 1, Append(refs, n), cols)
             ELSE BoundsLoop(NudgeDown(L1, refs, n), n + 1, refs, cols)

correctBounds(L, cols) == BoundsLoop(L, 1, getStatics(L), cols)

(***************************************************************************)
(* Cascading move resolver.  An optional number argument is <<>> when it   *)
(* is undefined and <<v>> when it is the number v.  A result is the layout *)
(* with the number of moveElement calls made so far; overrun is set when   *)
(* the cascade asked for more than MaxCalls calls.                         *)
(***************************************************************************)
Undefined == <<>>
Num(v) == <<v>>
IsNumber(a) == Len(a) = 1

Reverse(s) == [j \in 1..Len(s) |-> s[Len(s) + 1 - j]]

\* getAllCollisions that leaves out the items marked moved.
CollisionsWithUnmoved(L, sorted, k) ==
    SelectSeq(sorted, LAMBDA j : collides(L[j], L[k]) /\ ~L[j].moved)

\* getAllCollisions over a sorted sequence of slots: the slots that collide.
getAllCollisions(L, sorted, k) ==
    SelectSeq(sorted, LAMBDA j : collides(L[j], L[k]))

\* The loop without its two "continue" guards.
SkipNothing(l, collision) == FALSE

\* if (collision.moved) continue;
\* if (l.y > collision.y && l.y - collision.y > collision.h / 4) continue;
SkipCollision(l, collision) ==
    \/ collision.moved
    \/ l.y > collision.y /\ 4 * (l.y - collision.y) > collision.h

\* The mock item of moveElementAwayFromCollision; its id is "-1".
FakeItem(collidesWith, itemToMove) ==
    [i |-> -1, x |-> itemToMove.x,
     y |-> Max(collidesWith.y - itemToMove.h, 0),
     w |-> itemToMove.w, h |-> itemToMove.h,
     static |-> FALSE, moved |-> FALSE]

\* const movingUp = y && l.y > y: a y of 0 is falsy, like a y not given.
movingUp(l, y) == IsNumber(y) /\ y[1] # 0 /\ l.y > y[1]

\* The layout once moveElement has set l.x, l.y (when given) and l.moved.
Placed(L, k, x, y) ==
    [L EXCEPT ![k] = [L[k] EXCEPT !.x = IF IsNumber(x) THEN x[1] ELSE @,
                                  !.y = IF IsNumber(y) THEN y[1] ELSE @,
                                  !.moved = TRUE]]

\* The collisions of moveElement, in the order its loop takes them, from
\* the layout L1 with l placed: the sort of the layout, reversed when moving
\* up, filtered by getAllCollisions.
CollisionsInOrder(L1, k, up, tie) ==
    LET rowcol == sortLayoutItemsByRowCol(L1, tie)
    IN  getAllCollisions(L1, IF up THEN Reverse(rowcol) ELSE rowcol, k)

RECURSIVE moveElement(_, _, _, _, _, _, _, _)
RECURSIVE moveElementAwayFromCollision(_, _, _, _, _, _)
RECURSIVE ResolveCollisions(_, _, _, _, _, _, _)

\* The for loop of moveElement over the collisions found, from position n.
ResolveCollisions(L, k, collisions, n, isUserAction, tie, calls) ==
    IF n > Len(collisions)
    THEN [layout |-> L, calls |-> calls, overrun |-> FALSE, order |-> <<>>]
    ELSE LET c == collisions[n]
         IN  IF SkipCollision(L[k], L[c])
             THEN ResolveCollisions(L, k, collisions, n + 1, isUserAction, tie, calls)
             ELSE LET r == IF L[c].static
                           THEN moveElementAwayFromCollision(L, c, k, isUserAction, tie, calls)
                           ELSE moveElementAwayFromCollision(L, k, c, isUserAction, tie, calls)
                  IN  IF r.overrun THEN r
                      ELSE ResolveCollisions(r.layout, k, collisions, n + 1,
                                             isUserAction, tie, r.calls)

\* moveElementAwayFromCollision that moves the item one column to the right.
MoveAwaySideways(L, collidesWith, itemToMove, isUserAction, tie, calls) ==
    moveElement(L, itemToMove, Num(L[itemToMove].x + 1), Undefined,
                FALSE, FALSE, tie, calls)

\* The recursive calls pass preventCollision (false) in the place of
\* isUserAction and nothing in the place of preventCollision.
moveElementAwayFromCollision(L, collidesWith, itemToMove, isUserAction, tie, calls) ==
    LET fakeItem == FakeItem(L[collidesWith], L[itemToMove])
    IN  IF isUserAction /\ getFirstCollision(L, fakeItem) = 0
        THEN moveElement(L, itemToMove, Undefined, Num(fakeItem.y),
                         FALSE, FALSE, tie, calls)
        ELSE moveElement(L, itemToMove, Undefined, Num(L[itemToMove].y + 1),
                         FALSE, FALSE, tie, calls)

moveElement(L, k, x, y, isUserAction, preventCollision, tie, calls) ==
    IF calls >= MaxCalls
    THEN [layout |-> L, calls |-> calls, overrun |-> TRUE, order |-> <<>>]
    ELSE IF L[k].static
    THEN [layout |-> L, calls |-> calls + 1, overrun |-> FALSE, order |-> <<>>]
    ELSE
    LET l == L[k]
        L1 == Placed(L, k, x, y)
        collisions == CollisionsInOrder(L1, k, movingUp(l, y), tie)
    IN  IF preventCollision /\ Len(collisions) > 0
        THEN [layout |-> [L1 EXCEPT ![k] = [l EXCEPT !.moved = FALSE]],
              calls |-> calls + 1, overrun |-> FALSE, order |-> <<>>]
        ELSE [ResolveCollisions(L1, k, collisions, 1, isUserAction, tie, calls + 1)
                 EXCEPT !.order = collisions]

(***************************************************************************)
(* Drag-drop placement resolver.  The pointer is given in steps of         *)
(* 1/PointerRes of a grid unit; the comparisons of judgeDragPostion are    *)
(* made on the same numbers multiplied out, so that no division is left.   *)
(* A placeholder is [pos, t]: the classified position and the slot of the  *)
(* item under the pointer (dropItem); pos = "none" is the absent result.   *)
(***************************************************************************)
PointerRes == 4

Positions == {"center", "top", "bottom", "left", "right"}

NoPlaceholder == [pos |-> "none", t |-> 0]

\* layout.findIndex((item) => item.i === id); 0 when there is none (-1).
findIndex(L, id) ==
    LET hits == {j \in 1..Len(L) : L[j].i = id}
    IN  IF hits = {} THEN 0 ELSE CHOOSE j \in hits : \A m \in hits : j <= m

\* cloneLayout: a copy, item for item.
cloneLayout(L) == [j \in 1..Len(L) |-> L[j]]

borderFit(l1, l2) ==
    IF l1.i = l2.i THEN FALSE
    ELSE \/ l1.y = l2.y + l2.h /\ l1.w = l2.w /\ l1.x = l2.x    \* border-top
         \/ l1.y + l1.h = l2.y /\ l1.w = l2.w /\ l1.x = l2.x    \* border-bottom
         \/ l1.x = l2.x + l2.w /\ l1.h = l2.h /\ l1.y = l2.y    \* border-left
         \/ l1.x + l1.w = l2.x /\ l1.h = l2.h /\ l1.y = l2.y    \* border-right

\* judgeDragPostion({w, h, x, y, l, l1}): w, h, x, y in pointer steps (w, h
\* the target's size, x, y the pointer from the target's corner), sameSize
\* is w === l.w && h === l.h, l the dragged item and l1 the target.
\*   y <= (h / w) * x      is   y * w <= h * x
\*   y >= h - (h / w) * x  is   y * w >= h * w - h * x
judgeDragPostion(w, h, x, y, sameSize, l, l1) ==
    LET below == y * w <= h * x
        above == y * w >= h * w - h * x
    IN  IF sameSize \/ borderFit(l, l1)
        THEN IF 3 * x < w
             THEN (IF below THEN "bottom" ELSE IF above THEN "top" ELSE "left")
             ELSE IF 3 * x <= 2 * w
             THEN (IF 3 * y <= h THEN "bottom"
                   ELSE IF 3 * y >= 2 * h THEN "top" ELSE "center")
             ELSE (IF y * w >= h * x THEN "top"
                   ELSE IF y * w <= h * w - h * x THEN "bottom" ELSE "right")
        ELSE IF below
             THEN (IF above THEN "right" ELSE "bottom")
             ELSE (IF above THEN "top" ELSE "left")

\* handlerBoundaryContions with the last branch passing every pos.
HandlerPassesAll(pos, w, h) == pos

\* handlerBoundaryContions that lets center through only on a target at
\* least two wide and two high.
HandlerVetoesCenter(pos, w, h) ==
    IF w > 1 /\ h > 1 THEN pos
    ELSE IF pos = "center" THEN "none"
    ELSE IF w > 1 /\ h < 2
    THEN (IF pos \notin {"top", "bottom"} THEN pos ELSE "none")
    ELSE IF h > 1 /\ w < 2
    THEN (IF pos \notin {"left", "right"} THEN pos ELSE "none")
    ELSE "none"

handlerBoundaryContions(pos, w, h) ==
    IF w > 1 /\ h > 1 THEN pos
    ELSE IF w > 1 /\ h < 2
    THEN (IF pos \notin {"top", "bottom"} THEN pos ELSE "none")
    ELSE IF h > 1 /\ w < 2
    THEN (IF pos \notin {"left", "right"} THEN pos ELSE "none")
    ELSE (IF pos = "center" THEN pos ELSE "none")

getPlaceholderPostion(pos, t) ==
    IF pos \in Positions
    THEN [pos |-> pos, t |-> t]
    ELSE NoPlaceholder

\* The pointer (px, py), in pointer steps, is within the closed rectangle.
PointerOn(item, px, py) ==
    /\ px >= item.x * PointerRes /\ px <= (item.x + item.w) * PointerRes
    /\ py >= item.y * PointerRes /\ py <= (item.y + item.h) * PointerRes

getMousePlaceholder(L, px, py, l) ==
    LET hits == {j \in 1..Len(L) : PointerOn(L[j], px, py)}
    IN  IF hits = {} THEN NoPlaceholder
        ELSE LET idx == CHOOSE j \in hits : \A m \in hits : j <= m
                 it == L[idx]
                 delX == px - it.x * PointerRes
                 delY == it.h * PointerRes - (py - it.y * PointerRes)
             IN  IF l.i # it.i
                 THEN getPlaceholderPostion(
                        handlerBoundaryContions(
                          judgeDragPostion(it.w * PointerRes, it.h * PointerRes,
                                           delX, delY,
                                           it.w = l.w /\ it.h = l.h, l, it),
                          it.w, it.h),
                        idx)
                 ELSE NoPlaceholder

\* The write layout[idx] = item; a write at index -1 sets a property of the
\* array and leaves its elements alone.
SetAt(L, idx, item) == IF idx \in 1..Len(L) THEN [L EXCEPT ![idx] = item] ELSE L

\* exchangeLayout writing both items at the index of l1.
ExchangeIntoOneSlot(L, l1, l2) ==
    LET l1Idx == findIndex(L, l1.i)
    IN  SetAt(SetAt(L, l1Idx, [l1 EXCEPT !.x = l2.x, !.y = l2.y]),
              l1Idx, [l2 EXCEPT !.x = l1.x, !.y = l1.y])

exchangeLayout(L, l1, l2) ==
    LET l1Idx == findIndex(L, l1.i)
        l2Idx == findIndex(L, l2.i)
    IN  IF l2.x > l1.x
        THEN SetAt(SetAt(L, l1Idx, [l1 EXCEPT !.x = l2.x + (l2.w - l1.w), !.y = l2.y]),
                   l2Idx, [l2 EXCEPT !.x = l1.x, !.y = l1.y])
        ELSE SetAt(SetAt(L, l1Idx, [l1 EXCEPT !.x = l2.x, !.y = l2.y]),
                   l2Idx, [l2 EXCEPT !.x = l1.x + (l1.w - l2.w), !.y = l1.y])

\* n / 2, for the even n the model splits.
Half(n) == n \div 2

\* SplitDropItem that places the dragged item and leaves the target whole.
SplitLeavesTarget(L, l1, l2, pos) ==
    LET l1Idx == findIndex(L, l1.i)
        centerX == l2.x + Half(l2.w)
        centerY == l2.y + Half(l2.h)
    IN  CASE pos \in {"top", "bottom"} ->
               SetAt(L, l1Idx, [l1 EXCEPT !.x = l2.x, !.w = l2.w, !.h = Half(l2.h),
                                          !.y = IF pos = "top" THEN l2.y ELSE centerY])
          [] pos \in {"left", "right"} ->
               SetAt(L, l1Idx, [l1 EXCEPT !.y = l2.y, !.h = l2.h, !.w = Half(l2.w),
                                          !.x = IF pos = "left" THEN l2.x ELSE centerX])
          [] OTHER -> L

SplitDropItem(L, l1, l2, pos) ==
    LET l1Idx == findIndex(L, l1.i)
        l2Idx == findIndex(L, l2.i)
        centerX == l2.x + Half(l2.w)
        centerY == l2.y + Half(l2.h)
    IN  CASE pos = "top" ->
               SetAt(SetAt(L, l1Idx, [l1 EXCEPT !.x = l2.x, !.y = l2.y, !.w = l2.w,
                                                !.h = Half(l2.h)]),
                     l2Idx, [l2 EXCEPT !.y = centerY, !.h = Half(l2.h)])
          [] pos = "bottom" ->
               SetAt(SetAt(L, l1Idx, [l1 EXCEPT !.x = l2.x, !.y = centerY, !.w = l2.w,
                                                !.h = Half(l2.h)]),
                     l2Idx, [l2 EXCEPT !.h = Half(l2.h)])
          [] pos = "left" ->
               SetAt(SetAt(L, l1Idx, [l1 EXCEPT !.x = l2.x, !.y = l2.y,
                                                !.w = Half(l2.w), !.h = l2.h]),
                     l2Idx, [l2 EXCEPT !.w = Half(l2.w), !.x = centerX])
          [] pos = "right" ->
               SetAt(SetAt(L, l1Idx, [l1 EXCEPT !.x = centerX, !.y = l2.y,
                                                !.w = Half(l2.w), !.h = l2.h]),
                     l2Idx, [l2 EXCEPT !.w = Half(l2.w)])
          [] OTHER -> L

\* The items of L that pass keep, as slots sorted by key (a stable sort).
SortedBy(L, keep(_), key(_)) ==
    LET S == {j \in 1..Len(L) : keep(L[j])}
        rank(a) == 1 + Cardinality({b \in S : \/ key(L[b]) < key(L[a])
                                              \/ key(L[b]) = key(L[a]) /\ b < a})
    IN  [r \in 1..Cardinality(S) |-> CHOOSE a \in S : rank(a) = r]

\* One border of getAlignItems: the flush items found, in order, and
\* whether the first and the last of them reach the two ends of the border.
AlignedOn(L, l, type) ==
    LET items ==
          CASE type = "bottom" ->
                 SortedBy(L, LAMBDA it : it.y = l.y + l.h /\ it.x >= l.x
                                         /\ it.x + it.w <= l.x + l.w,
                          LAMBDA it : it.x)
            [] type = "top" ->
                 SortedBy(L, LAMBDA it : l.y = it.y + it.h /\ it.x >= l.x
                                         /\ it.x + it.w <= l.x + l.w,
                          LAMBDA it : it.x)
            [] type = "left" ->
                 SortedBy(L, LAMBDA it : l.x = it.x + it.w /\ it.y >= l.y
                                         /\ it.y + it.h <= l.y + l.h,
                          LAMBDA it : it.y)
            [] OTHER ->
                 SortedBy(L, LAMBDA it : it.x = l.x + l.w /\ it.y >= l.y
                                         /\ it.y + it.h <= l.y + l.h,
                          LAMBDA it : it.y)
        n == Len(items)
        first == L[items[1]]
        last == L[items[n]]
    IN  [items |-> items,
         fits |-> /\ n > 0
                  /\ IF type \in {"bottom", "top"}
                     THEN first.x = l.x /\ last.x + last.w = l.x + l.w
                     ELSE first.y = l.y /\ last.y + last.h = l.y + l.h]

\* The change list: for each flush item its id and the deltas of x, y, w, h.
Changes(L, l, type, items) ==
    [j \in 1..Len(items) |->
        [i |-> L[items[j]].i,
         x |-> IF type = "right" THEN -1 * l.w ELSE 0,
         y |-> IF type = "bottom" THEN -1 * l.h ELSE 0,
         w |-> IF type \in {"left", "right"} THEN l.w ELSE 0,
         h |-> IF type \in {"bottom", "top"} THEN l.h ELSE 0]]

getAlignItems(L, l) ==
    LET b == AlignedOn(L, l, "bottom")
        t == AlignedOn(L, l, "top")
        lf == AlignedOn(L, l, "left")
        r == AlignedOn(L, l, "right")
    IN  IF b.fits THEN Changes(L, l, "bottom", b.items)
        ELSE IF t.fits THEN Changes(L, l, "top", t.items)
        ELSE IF lf.fits THEN Changes(L, l, "left", lf.items)
        ELSE IF r.fits THEN Changes(L, l, "right", r.items)
        ELSE <<>>

RECURSIVE fillGap(_, _)
fillGap(L, changeList) ==
    IF changeList = <<>> THEN L
    ELSE LET c == Head(changeList)
             index == findIndex(L, c.i)
         IN  fillGap(SetAt(L, index, [L[index] EXCEPT !.x = @ + c.x, !.y = @ + c.y,
                                                     !.w = @ + c.w, !.h = @ + c.h]),
                     Tail(changeList))

\* dropElement(layout, l, mousePlaceholder), dropItem being the item in
\* slot t of the layout.
dropElement(L, l, ph) ==
    IF ph.pos = "none" THEN L
    ELSE LET copyLayout == cloneLayout(L)
         IN  IF ph.pos = "center"
             THEN exchangeLayout(copyLayout, l, L[ph.t])
             ELSE SplitDropItem(fillGap(copyLayout, getAlignItems(L, l)),
                                l, L[ph.t], ph.pos)

(***************************************************************************)
(* Layouts the caller may hand to the engine.                              *)
(***************************************************************************)
Items(id, xs, ys, ws, hs, statics, moveds) ==
    [i : {id}, x : xs, y : ys, w : ws, h : hs, static : statics, moved : moveds]

\* All layouts of NItems items with ids 1..NItems in slot order.
Layouts(xs, ys, ws, hs, statics, moveds) ==
    {L \in [Slots -> Items(0, xs, ys, ws, hs, statics, moveds)] : TRUE}

WithIds(L) == [j \in 1..Len(L) |-> [L[j] EXCEPT !.i = j]]

(***************************************************************************)
(* Compaction and bounds correction, applied to any layout: items on the   *)
(* grid in any arrangement, and items that hang over the left edge.        *)
(***************************************************************************)
InitPass ==
    /\ layout \in {WithIds(L) : L \in Layouts(0..MaxX, 0..MaxY, 1..MaxSize,
                                             1..MaxSize, BOOLEAN, {FALSE})}
    /\ prev = layout
    /\ op = NoOp

InitBounds ==
    /\ layout \in {WithIds(L) : L \in Layouts(-1..MaxX, 0..1, 1..MaxSize,
                                             1..MaxSize, BOOLEAN, {FALSE})}
    /\ prev = layout
    /\ op = NoOp

Compact ==
    \E verticalCompact \in BOOLEAN, tie \in TieOrders :
        /\ layout' = compact(layout, verticalCompact, tie)
        /\ prev' = layout
        /\ op' = [NoOp EXCEPT !.name = "compact", !.flag = verticalCompact,
                              !.rep = (op.name = "compact" /\ op.flag = verticalCompact),
                              !.n = op.n + 1]

CorrectBounds ==
    \E cols \in 1..MaxCols :
        /\ layout' = correctBounds(layout, cols)
        /\ prev' = layout
        /\ op' = [NoOp EXCEPT !.name = "correctBounds", !.x = cols, !.n = op.n + 1]

\* Fewer than MaxOps operations have been applied.
Going == op.n < MaxOps

NextPass == Going /\ Compact

SpecPass == InitPass /\ [][NextPass]_vars

NextBounds ==
    \/ Going /\ Compact
    \/ Going /\ CorrectBounds

SpecBounds == InitBounds /\ [][NextBounds]_vars

(***************************************************************************)
(* Properties of compaction and bounds correction                          *)
(***************************************************************************)
SameBox(a, b) == a.x = b.x /\ a.y = b.y /\ a.w = b.w /\ a.h = b.h

\* C1: after compact, with either value of verticalCompact, no two distinct
\* items of the result collide unless both are static.
CompactLeavesNoOverlap ==
    op.name = "compact" =>
        \A a, b \in Slots :
            collides(layout[a], layout[b]) =>
                layout[a].static /\ layout[b].static

\* compact has resolved an overlap of the input which involved a non-static
\* item and a static one, and one between two non-static items.
CompactResolvedOverlap ==
    /\ op.name = "compact"
    /\ \E a, b \in Slots : /\ collides(prev[a], prev[b])
                           /\ ~prev[a].static /\ prev[b].static
    /\ \E a, b \in Slots : /\ collides(prev[a], prev[b])
                           /\ ~prev[a].static /\ ~prev[b].static

\* C2: compacting a vertically compacted layout once more changes nothing:
\* every slot holds the same item with the same x, y, w, h and moved flag.
CompactIdempotent ==
    (op.name = "compact" /\ op.flag /\ op.rep) => layout = prev

\* A second vertical compaction in a row has run on a layout in which an
\* item rests on another and a static item is present.
CompactedTwice ==
    /\ op.name = "compact" /\ op.flag /\ op.rep
    /\ \E a, b \in Slots : /\ ~layout[a].static
                           /\ layout[a].y = layout[b].y + layout[b].h
                           /\ layout[a].y > 0
    /\ \E a \in Slots : layout[a].static

\* C3 as stated: compact and correctBounds leave x, y, w and h of every
\* static item unchanged.
StaticsUntouched ==
    op.name \in {"compact", "correctBounds"} =>
        \A s \in Slots : prev[s].static => SameBox(layout[s], prev[s])

\* C3 as amended: compact leaves x, y, w and h of every static item
\* unchanged; correctBounds leaves h of a static item unchanged, leaves its
\* x and w unchanged when the item lies within the columns, and changes
\* its y only by moving it down.
StaticsUnderPasses ==
    \A s \in Slots : prev[s].static =>
        /\ op.name = "compact" => SameBox(layout[s], prev[s])
        /\ op.name = "correctBounds" =>
              /\ layout[s].h = prev[s].h
              /\ layout[s].y >= prev[s].y
              /\ (prev[s].x >= 0 /\ prev[s].x + prev[s].w <= op.x) =>
                    (layout[s].x = prev[s].x /\ layout[s].w = prev[s].w)

\* correctBounds has moved down a static item that lay within the columns,
\* in a layout with another static item left of the grid.
StaticsMetPasses ==
    /\ op.name = "correctBounds"
    /\ \E s, t \in Slots : /\ prev[s].static /\ prev[s].x >= 0
                           /\ prev[s].x + prev[s].w <= op.x
                           /\ layout[s].y > prev[s].y
                           /\ prev[t].static /\ prev[t].x < 0

\* C4: after correctBounds(L, {cols}) every item has x >= 0 and
\* x + w <= cols.
BoundsContainment ==
    op.name = "correctBounds" =>
        \A s \in Slots : layout[s].x >= 0 /\ layout[s].x + layout[s].w <= op.x

\* correctBounds has run on a layout with an item left of the grid, an item
\* wider than the grid and a static item.
BoundsCorrected ==
    /\ op.name = "correctBounds"
    /\ \E s \in Slots : prev[s].x < 0 /\ prev[s].x + prev[s].w <= op.x
    /\ \E s \in Slots : prev[s].w > op.x
    /\ \E s \in Slots : prev[s].static /\ prev[s].x + prev[s].w > op.x

(***************************************************************************)
(* collides, applied to any two items.  The layout holds the two items;    *)
(* an operation names the slots p and q it compares (p = q: the same       *)
(* object) and keeps both collides(p, q) and collides(q, p).               *)
(***************************************************************************)
InitCollide ==
    /\ layout \in {WithIds(L) : L \in [1..2 -> Items(0, 0..MaxY, 0..MaxY,
                                     0..MaxSize, 0..MaxSize, {FALSE}, {FALSE})]}
    /\ prev = layout
    /\ op = NoOp

Collide ==
    \E p, q \in 1..2 :
        /\ op' = [NoOp EXCEPT !.name = "collides", !.k = p, !.x = q,
                              !.flag = collides(layout[p], layout[q]),
                              !.flag2 = collides(layout[q], layout[p])]
        /\ UNCHANGED <<layout, prev>>

NextCollide == Collide

SpecCollide == InitCollide /\ [][NextCollide]_vars

\* The unit cells of the half-open rectangle [x, x+w) x [y, y+h).
Cells(a) == {<<cx, cy>> : cx \in a.x..(a.x + a.w - 1), cy \in a.y..(a.y + a.h - 1)}

\* C8 as stated: for non-negative integer x, y, w, h, collides(a, b) is
\* true exactly when a and b are distinct objects whose half-open
\* rectangles overlap with positive area, and collides(b, a) agrees.
CollidesIffOverlap ==
    op.name = "collides" =>
        LET a == layout[op.k]
            b == layout[op.x]
        IN  /\ op.flag = (op.k # op.x /\ Cells(a) \cap Cells(b) # {})
            /\ op.flag2 = op.flag

\* C8 as amended: the same for non-negative integer x, y and w, h >= 1.
CollidesIffOverlapSized ==
    op.name = "collides" =>
        LET a == layout[op.k]
            b == layout[op.x]
        IN  (a.w >= 1 /\ a.h >= 1 /\ b.w >= 1 /\ b.h >= 1) =>
                /\ op.flag = (op.k # op.x /\ Cells(a) \cap Cells(b) # {})
                /\ op.flag2 = op.flag

\* collides has answered false for two distinct items of positive size that
\* touch along a vertical edge and share rows.
CollidesSawTouching ==
    /\ op.name = "collides" /\ op.k # op.x /\ ~op.flag
    /\ LET a == layout[op.k]
           b == layout[op.x]
       IN  /\ a.w >= 1 /\ a.h >= 1 /\ b.w >= 1 /\ b.h >= 1
           /\ a.x + a.w = b.x
           /\ a.y < b.y + b.h /\ b.y < a.y + a.h

(***************************************************************************)
(* One call of moveElement on a layout the application may hold: the items *)
(* fit the columns and do not overlap; each is plain, static, or still     *)
(* marked moved by an earlier call.                                        *)
(***************************************************************************)
NoOverlap(L) == \A a, b \in 1..Len(L) : ~collides(L[a], L[b])

WithinCols(L) == \A j \in 1..Len(L) : L[j].x >= 0 /\ L[j].x + L[j].w <= MaxCols

Held == {L \in {WithIds(M) : M \in Layouts(0..MaxX, 0..MaxY, 1..MaxSize, 1..MaxSize,
                                          BOOLEAN, BOOLEAN)} :
            /\ WithinCols(L)
            /\ NoOverlap(L)
            /\ \A j \in Slots : ~(L[j].static /\ L[j].moved)}

InitMove ==
    /\ layout \in Held
    /\ prev = layout
    /\ op = NoOp

MoveElement ==
    \E k \in Slots, x \in 0..MaxX, y \in 0..MaxY,
       isUserAction \in BOOLEAN, preventCollision \in BOOLEAN, tie \in TieOrders :
        \E r \in {moveElement(layout, k, Num(x), Num(y), isUserAction,
                             preventCollision, tie, 0)} :
            /\ layout' = r.layout
            /\ prev' = layout
            /\ op' = [NoOp EXCEPT !.name = "moveElement", !.k = k, !.x = x, !.y = y,
                                  !.flag = isUserAction, !.flag2 = preventCollision,
                                  !.overrun = r.overrun, !.n = op.n + 1,
                                  !.order = r.order]

NextMove == op.n < 1 /\ MoveElement

SpecMove == InitMove /\ [][NextMove]_vars

\* The item in slot k, were it at (x, y).
Target(L, k, x, y) == [L[k] EXCEPT !.x = x, !.y = y]

\* The requested (x, y) makes the item in slot k collide with another item.
TargetCollides(L, k, x, y) == \E j \in 1..Len(L) : collides(Target(L, k, x, y), L[j])

\* C7: every call of moveElement returns: the cascade of calls it sets off
\* ends within MaxCalls calls, for any mix of static and non-static items and
\* any moved flags, with isUserAction true or false.
CascadeTerminates == op.name = "moveElement" => ~op.overrun

\* A call that pushed the two other items away and returned.
CascadeRan ==
    /\ op.name = "moveElement" /\ ~op.flag2 /\ ~op.overrun
    /\ \A j \in Slots \ {op.k} : layout[j].y # prev[j].y /\ layout[j].moved

\* C9: when a non-static item a is dragged (isUserAction true,
\* preventCollision false) onto a static item b of row 0, and onto no other
\* item, b stays at its (x, y) and a ends at y = b.y + b.h.
StaticBlocksDrag ==
    (op.name = "moveElement" /\ op.flag /\ ~op.flag2 /\ ~prev[op.k].static) =>
        \A b \in Slots :
            (/\ prev[b].static /\ prev[b].y = 0
             /\ \A j \in Slots : collides(Target(prev, op.k, op.x, op.y), prev[j]) <=> j = b)
            => /\ layout[b].x = prev[b].x /\ layout[b].y = prev[b].y
               /\ layout[op.k].y = prev[b].y + prev[b].h

(***************************************************************************)
(* The engine at work: the operations the grid applies to its layout, one  *)
(* after another, MaxOps of them.  The layout starts as the grid shows it: *)
(* compacted, within the columns, its items listed in reading order.       *)
(***************************************************************************)
InReadingOrder(L) ==
    \A a, b \in 1..Len(L) :
        a < b => (L[a].y < L[b].y \/ (L[a].y = L[b].y /\ L[a].x < L[b].x))

Shown == {L \in {WithIds(M) : M \in Layouts(0..MaxX, 0..MaxY, 1..MaxSize, 1..MaxSize,
                                           {FALSE}, {FALSE})} :
            /\ WithinCols(L)
            /\ NoOverlap(L)
            /\ InReadingOrder(L)
            /\ compact(L, TRUE, "stable") = L}

Init ==
    /\ layout \in Shown
    /\ prev = layout
    /\ op = NoOp

\* A drop of the item in slot k on the item in slot t, with a placeholder
\* that handlerBoundaryContions lets through.  The halves of a split are
\* whole numbers: the side that is split is even.
DropElement ==
    \E k \in Slots, t \in Slots, pos \in Positions :
        /\ t # k
        /\ handlerBoundaryContions(pos, layout[t].w, layout[t].h) = pos
        /\ pos \in {"top", "bottom"} => layout[t].h % 2 = 0
        /\ pos \in {"left", "right"} => layout[t].w % 2 = 0
        /\ layout' = dropElement(layout, layout[k], [pos |-> pos, t |-> t])
        /\ prev' = layout
        /\ op' = [NoOp EXCEPT !.name = "dropElement", !.k = k, !.pos = pos, !.t = t,
                              !.n = op.n + 1]

Next ==
    \/ Going /\ Compact
    \/ Going /\ CorrectBounds
    \/ Going /\ MoveElement
    \/ Going /\ DropElement

Spec == Init /\ [][Next]_vars

\* The call was moveElement with preventCollision set and a requested (x, y)
\* that makes the item collide with another one.
Rejected ==
    op.name = "moveElement" /\ op.flag2 /\ TargetCollides(prev, op.k, op.x, op.y)

\* C5 as stated: a rejected move returns the layout as it was, no item's x
\* or y changed and every moved flag false.
MoveRejectionRestores ==
    Rejected => /\ \A j \in Slots : layout[j].x = prev[j].x /\ layout[j].y = prev[j].y
                /\ \A j \in Slots : ~layout[j].moved

\* C5: a rejected move changes no item's x, y, w or h; the moved flag of the
\* item passed is false afterwards and the moved flag of every other item
\* is what it was before the call.
MoveRejectionRollsBack ==
    Rejected => /\ \A j \in Slots : SameBox(layout[j], prev[j])
                /\ ~layout[op.k].moved
                /\ \A j \in Slots \ {op.k} : layout[j].moved = prev[j].moved

\* A move rejected after an earlier move that left moved flags behind.
RejectedAfterMove ==
    /\ Rejected
    /\ op.n > 1
    /\ prev[op.k].moved
    /\ \E j \in Slots \ {op.k} : prev[j].moved

\* C6: after any sequence of compact, correctBounds, moveElement and
\* dropElement the layout has the number of items and the set of ids it
\* started with.
IdsPreserved ==
    /\ Len(layout) = NItems
    /\ {layout[j].i : j \in 1..Len(layout)} = Slots

\* A split drop that followed another operation.
DroppedInSequence ==
    /\ op.name = "dropElement" /\ op.pos # "center" /\ op.n > 1
    /\ layout # prev

(***************************************************************************)
(* The pointer over a layout of non-overlapping items: one call of         *)
(* getMousePlaceholder for a dragged item and a pointer position.          *)
(***************************************************************************)
InitPointer ==
    /\ layout \in {L \in {WithIds(M) : M \in Layouts(0..MaxX, 0..MaxY, 1..MaxSize,
                                                    1..MaxSize, {FALSE}, {FALSE})} :
                      NoOverlap(L)}
    /\ prev = layout
    /\ op = NoOp

GetMousePlaceholder ==
    \E k \in Slots, px \in 0..((MaxX + MaxSize) * PointerRes),
       py \in 0..((MaxY + MaxSize) * PointerRes) :
        LET ph == getMousePlaceholder(layout, px, py, layout[k])
        IN  /\ op' = [NoOp EXCEPT !.name = "getMousePlaceholder", !.k = k,
                                  !.x = px, !.y = py, !.pos = ph.pos, !.t = ph.t,
                                  !.n = op.n + 1]
            /\ UNCHANGED <<layout, prev>>

NextPointer == op.n < 1 /\ GetMousePlaceholder

SpecPointer == InitPointer /\ [][NextPointer]_vars

\* The pointer of the call is strictly inside the rectangle of the item in
\* slot t, which is not the dragged item.
StrictlyInside(t) ==
    /\ op.name = "getMousePlaceholder" /\ t # op.k
    /\ op.x > layout[t].x * PointerRes /\ op.x < (layout[t].x + layout[t].w) * PointerRes
    /\ op.y > layout[t].y * PointerRes /\ op.y < (layout[t].y + layout[t].h) * PointerRes

\* C10 as stated: the placeholder is never absent, its pos is one of the
\* five, never top or bottom on a target with h < 2 and never left or right
\* on a target with w < 2.
ClassificationTotal ==
    \A t \in Slots : StrictlyInside(t) =>
        /\ op.pos \in Positions
        /\ layout[t].h < 2 => op.pos \notin {"top", "bottom"}
        /\ layout[t].w < 2 => op.pos \notin {"left", "right"}

\* C10: the placeholder is absent or is one on the target with a pos of the
\* five; it is never absent when the target has w >= 2 and h >= 2; its pos
\* is never top or bottom when h < 2 and never left or right when w < 2.
ClassificationVetoed ==
    \A t \in Slots : StrictlyInside(t) =>
        /\ op.pos = "none" \/ (op.pos \in Positions /\ op.t = t)
        /\ (layout[t].w >= 2 /\ layout[t].h >= 2) => op.pos \in Positions
        /\ layout[t].h < 2 => op.pos \notin {"top", "bottom"}
        /\ layout[t].w < 2 => op.pos \notin {"left", "right"}

\* A pointer in the left part of a target one column wide and two rows
\* high: the classification was left and the placeholder is absent.
ClassificationWasVetoed ==
    \E t \in Slots :
        /\ StrictlyInside(t)
        /\ layout[t].w = 1 /\ layout[t].h = 2
        /\ op.pos = "none"

(***************************************************************************)
(* Properties of the drop                                                  *)
(***************************************************************************)
\* The cells of rectangle b that lie in its half nearer the edge pos.
NearHalf(b, pos) ==
    {c \in Cells(b) :
        CASE pos = "top"    -> 2 * (c[2] - b.y) < b.h
          [] pos = "bottom" -> 2 * (c[2] - b.y) >= b.h
          [] pos = "left"   -> 2 * (c[1] - b.x) < b.w
          [] OTHER          -> 2 * (c[1] - b.x) >= b.w}

\* The last operation dropped the item of slot op.k on an edge of the item
\* of slot op.t, a target with even w and h.
EdgeDropOnEven ==
    /\ op.name = "dropElement" /\ op.pos \in Positions \ {"center"}
    /\ prev[op.t].w % 2 = 0 /\ prev[op.t].h % 2 = 0

\* C11: after an edge drop on a target with even w and h the dragged item
\* has the half of the target's former rectangle nearer the chosen edge and
\* the target has the other half: the halves are disjoint, cover the former
\* rectangle, are halved along the split axis and keep the other dimension.
EdgeSplitHalves ==
    EdgeDropOnEven =>
        LET a == layout[op.k]
            b == layout[op.t]
            was == prev[op.t]
        IN  /\ Cells(a) = NearHalf(was, op.pos)
            /\ Cells(b) = Cells(was) \ NearHalf(was, op.pos)
            /\ Cells(a) \cap Cells(b) = {}
            /\ Cells(a) \cup Cells(b) = Cells(was)
            /\ IF op.pos \in {"top", "bottom"}
               THEN /\ 2 * a.h = was.h /\ 2 * b.h = was.h
                    /\ a.w = was.w /\ b.w = was.w
               ELSE /\ 2 * a.w = was.w /\ 2 * b.w = was.w
                    /\ a.h = was.h /\ b.h = was.h

\* A drop on the right edge of a target two wide and two high, by an item
\* of another size.
SplitOnTheRight ==
    /\ EdgeDropOnEven /\ op.pos = "right"
    /\ ~(prev[op.k].w = 2 /\ prev[op.k].h = 2)

(***************************************************************************)
(* Properties of the classification of the pointer                         *)
(***************************************************************************)
\* The pointer of the call lies in the middle third of the item of slot t,
\* across (ends included) and down (ends excluded).
MiddleThird(t) ==
    LET w == layout[t].w * PointerRes
        h == layout[t].h * PointerRes
        x == op.x - layout[t].x * PointerRes
        y == h - (op.y - layout[t].y * PointerRes)
    IN  /\ 3 * x >= w /\ 3 * x <= 2 * w
        /\ 3 * y > h /\ 3 * y < 2 * h

\* The dragged item of the call has the size of the item of slot t or lies
\* flush against it with a border of the same length.
SwapCandidate(t) ==
    \/ layout[t].w = layout[op.k].w /\ layout[t].h = layout[op.k].h
    \/ borderFit(layout[op.k], layout[t])

\* C12 as stated: a placeholder with pos = center is returned only for a
\* target with w >= 2 and h >= 2.
CenterOnlyOnLarge ==
    (op.name = "getMousePlaceholder" /\ op.pos = "center") =>
        layout[op.t].w >= 2 /\ layout[op.t].h >= 2

\* C12: a placeholder with pos = center is returned only when the pointer
\* is in the middle third of the target and the dragged item has the
\* target's size or is flush against it; and with the pointer strictly
\* inside such a target it is always returned, whatever w and h of the
\* target are.
CenterNeverVetoed ==
    /\ (op.name = "getMousePlaceholder" /\ op.pos = "center") =>
           op.t # op.k /\ SwapCandidate(op.t) /\ MiddleThird(op.t)
    /\ \A t \in Slots :
           (StrictlyInside(t) /\ SwapCandidate(t) /\ MiddleThird(t)) =>
               op.pos = "center" /\ op.t = t

\* Center was returned for a target one wide and one high.
CenterOnUnitTarget ==
    /\ op.name = "getMousePlaceholder" /\ op.pos = "center"
    /\ layout[op.t].w = 1 /\ layout[op.t].h = 1

(***************************************************************************)
(* Properties of the gap fill                                              *)
(***************************************************************************)
\* The slots of the neighbours getAlignItems found flush against a border
\* of the dragged item, before the last operation.
FlushNeighbours ==
    LET changeList == getAlignItems(prev, prev[op.k])
    IN  {findIndex(prev, changeList[j].i) : j \in 1..Len(changeList)}

\* The last operation was an edge drop in a non-overlapping layout for
\* which getAlignItems found flush neighbours.
EdgeDropWithNeighbours ==
    /\ op.name = "dropElement" /\ op.pos \in Positions \ {"center"}
    /\ NoOverlap(prev)
    /\ FlushNeighbours # {}

\* C13: after such a drop every flush neighbour has grown, from the
\* rectangle it had, into the rectangle the dragged item had, by the dragged
\* item's former height or width, and the neighbours together cover
\* exactly that rectangle, whichever item is the drop target.
GapFilled ==
    EdgeDropWithNeighbours =>
        LET gap == Cells(prev[op.k])
            grown(j) == Cells(layout[j]) \ Cells(prev[j])
        IN  /\ \A j \in FlushNeighbours :
                  /\ Cells(prev[j]) \subseteq Cells(layout[j])
                  /\ grown(j) # {} /\ grown(j) \subseteq gap
                  /\ \/ layout[j].h = prev[j].h + prev[op.k].h /\ layout[j].w = prev[j].w
                     \/ layout[j].w = prev[j].w + prev[op.k].w /\ layout[j].h = prev[j].h
            /\ UNION {grown(j) : j \in FlushNeighbours} = gap

(***************************************************************************)
(* Properties of one call of moveElement                                   *)
(***************************************************************************)
\* Item a comes no later than item b in row-major order.
RowMajor(a, b) == a.y < b.y \/ (a.y = b.y /\ a.x <= b.x)

\* The slots of order, by their items before the call, run in row-major
\* order; in reversed row-major order.
Ascending(order) ==
    \A m, n \in 1..Len(order) : m < n => RowMajor(prev[order[m]], prev[order[n]])

Descending(order) ==
    \A m, n \in 1..Len(order) : m < n => RowMajor(prev[order[n]], prev[order[m]])

\* C14: when the y given is smaller than the item's y, y = 0 included, the
\* colliding items are resolved in reversed row-major order, and in every
\* other case in row-major order.
ResolvedMovingUpReversed ==
    (op.name = "moveElement" /\ ~prev[op.k].static) =>
        IF op.y < prev[op.k].y THEN Descending(op.order) ELSE Ascending(op.order)

\* C15: a call of moveElement, with the cascade it sets off, changes w and h
\* of no item, x of no item but the one passed, and x, y, w, h of no static
\* item; the other items change in y and moved only; when the item passed
\* is static nothing changes.
FrameOfMoveElement ==
    op.name = "moveElement" =>
        /\ \A j \in Slots :
              /\ layout[j].w = prev[j].w /\ layout[j].h = prev[j].h
              /\ layout[j].i = prev[j].i /\ layout[j].static = prev[j].static
              /\ j # op.k => layout[j].x = prev[j].x
              /\ prev[j].static => SameBox(layout[j], prev[j])
        /\ prev[op.k].static => layout = prev

\* A call that moved its item to another column, onto a static item, and
\* displaced another item.
MovedAcrossOntoStatic ==
    /\ op.name = "moveElement"
    /\ layout[op.k].x # prev[op.k].x
    /\ \E s \in Slots : prev[s].static /\ collides(Target(prev, op.k, op.x, op.y), prev[s])
    /\ \E j \in Slots \ {op.k} : layout[j].y # prev[j].y

====
